---- MODULE Spec2Model ----
(***************************************************************************)
(* The blog controller of my-blog-api (blogController: createBlog,         *)
(* getPublishedBlogs, getPublishedBlogById, getMyBlogs, updateBlog,        *)
(* updateBlogState, deleteBlog) over the Blog collection of models/Blog.js,*)
(* and the registerUser and loginUser handlers of authController over the  *)
(* User collection.                                                        *)
(*                                                                         *)
(* Every handler is an async function: the code between two awaits runs    *)
(* atomically on the Node event loop, and each awaited store call is one   *)
(* atomic operation of the document store.  A handler with two awaited     *)
(* store calls is therefore two actions, and handlers of different         *)
(* requests interleave between them.                                       *)
(*                                                                         *)
(* Titles stand for trimmed, non-empty strings.  updatedAt is not          *)
(* modelled; createdAt is the order in which _id values are assigned.      *)
(***************************************************************************)
EXTENDS Integers, Sequences, FiniteSets, TLC

\* Bounds of the model.
MaxPosts == 2       \* documents ever inserted into the Blog collection
MaxInFlight == 2    \* requests in flight at the same time
MaxRequests == 4    \* requests received in a run

\* Blog.js: const wordsPerMinute = 200
wordsPerMinute == 200

Users == {"u1", "u2"}
Titles == {"t1", "t2"}
Ids == 1..MaxPosts
Reqs == 1..MaxInFlight

\* A body is a run of `words` words separated by whitespace, with optional
\* leading and trailing whitespace.
Body1 == [words |-> 1, lead |-> FALSE, trail |-> FALSE]
Body2 == [words |-> 200, lead |-> FALSE, trail |-> TRUE]

\* JSON request bodies of POST /api/blogs and PUT /api/blogs/:id: a record
\* holds exactly the keys that are present in the JSON object.
ReqBodies ==
    { [title |-> "t1", body |-> Body1],
      [title |-> "t1", body |-> Body1, state |-> "published"],
      [title |-> "t2", body |-> Body2, description |-> "", tags |-> <<"x">>,
       state |-> "published"],
      [title |-> "t2", body |-> Body1, state |-> "draft"],
      [title |-> "t1", body |-> Body1, state |-> "archived"],
      [state |-> "published"],
      [title |-> "t2", body |-> Body1, read_count |-> 5],
      [title |-> "t1", body |-> Body1, author |-> "u2"] }

VARIABLES
    blogs,      \* the Blog collection: _id -> document
    users,      \* the User collection: _id -> document
    nextId,     \* number of _id values assigned so far
    pc,         \* per request slot: the await the handler is suspended at
    loc,        \* per request slot: the handler's local variables
    last,       \* the response sent by the latest step, if it sent one
    received    \* number of requests received so far

vars == <<blogs, users, nextId, pc, loc, last, received>>

Has(b, f) == f \in DOMAIN b

Put(d, f, v) == [k \in DOMAIN d \cup {f} |-> IF k = f THEN v ELSE d[k]]

NoError == "ok"
NoLoc == [op |-> "none"]
NoRequest == [none |-> TRUE]
NoResponse == [op |-> "none", req |-> NoRequest, status |-> 0, message |-> ""]

\* ------------------------------------------------------------------------
\* models/Blog.js

\* body.split(/\s+/).length: leading and trailing whitespace each yield an
\* empty first or last token, which is counted.
splitLength(body) ==
    IF body.words = 0
    THEN IF body.lead \/ body.trail THEN 2 ELSE 1
    ELSE body.words + (IF body.lead THEN 1 ELSE 0) + (IF body.trail THEN 1 ELSE 0)

\* Math.ceil(wordCount / wordsPerMinute)
reading_time(body) == (splitLength(body) + wordsPerMinute - 1) \div wordsPerMinute

\* BlogSchema.pre('save'): reading_time is recomputed when body is modified
\* or the document is new.
preSave(doc, mod, isNew) ==
    IF "body" \in mod \/ isNew
    THEN [doc EXCEPT !.reading_time = reading_time(doc.body)]
    ELSE doc

\* title: { unique: true }: the unique index on title alone.
TitleIndexHit(title, self) ==
    \E j \in DOMAIN blogs : j # self /\ blogs[j].title = title

\* The document Blog.create builds from createBlog's arguments, with the
\* schema defaults (state 'draft', read_count 0, tags []).
NewDoc(caller, b) ==
    LET base == [title |-> b.title,
                 author |-> caller,
                 state |-> IF Has(b, "state") THEN b.state ELSE "draft",
                 read_count |-> 0,
                 reading_time |-> 0,
                 tags |-> IF Has(b, "tags") THEN b.tags ELSE <<>>,
                 body |-> b.body]
        full == IF Has(b, "description")
                THEN Put(base, "description", b.description)
                ELSE base
    IN preSave(full, {}, TRUE)

\* ------------------------------------------------------------------------
\* blogController

\* A validation that accepts any state.
MutBlogSchema(b, allowUnknown) ==
    IF ~Has(b, "title") THEN "\"title\" is required"
    ELSE IF ~Has(b, "body") THEN "\"body\" is required"
    ELSE IF ~allowUnknown /\ Has(b, "read_count")
         THEN "\"read_count\" is not allowed"
    ELSE IF ~allowUnknown /\ Has(b, "author")
         THEN "\"author\" is not allowed"
    ELSE NoError

\* blogSchema.validate(req.body, {allowUnknown}): the message of the first
\* error, keys in schema order, unknown keys last.
blogSchema(b, allowUnknown) ==
    IF ~Has(b, "title") THEN "\"title\" is required"
    ELSE IF ~Has(b, "body") THEN "\"body\" is required"
    ELSE IF Has(b, "state") /\ b.state \notin {"draft", "published"}
         THEN "\"state\" must be one of [draft, published]"
    ELSE IF ~allowUnknown /\ Has(b, "read_count")
         THEN "\"read_count\" is not allowed"
    ELSE IF ~allowUnknown /\ Has(b, "author")
         THEN "\"author\" is not allowed"
    ELSE NoError

\* A response, with the request it answers: res.status(status).json({message})
Response(op, req, status, message) ==
    [op |-> op, req |-> req, status |-> status, message |-> message]

\* res.status(status).json(blog)
ResponseBlog(op, req, status, id, doc) ==
    [op |-> op, req |-> req, status |-> status, message |-> "",
     blog |-> Put(doc, "_id", id)]

\* res.status(..).json(..): the handler of slot r ends.
Respond(r, resp) ==
    /\ last' = resp
    /\ pc' = [pc EXCEPT ![r] = "idle"]
    /\ loc' = [loc EXCEPT ![r] = NoLoc]

\* await: the handler of slot r waits for its next store call.
Suspend(r, at, locals) ==
    /\ pc' = [pc EXCEPT ![r] = at]
    /\ loc' = [loc EXCEPT ![r] = locals]
    /\ last' = NoResponse

\* The router hands a request to the handler of the free slot r.
Accept(r) ==
    /\ pc[r] = "idle"
    /\ received < MaxRequests
    /\ received' = received + 1

\* A request of /api/blogs: no blog handler writes the User collection.
Receive(r) ==
    /\ Accept(r)
    /\ UNCHANGED users

\* A handler already running goes on from the await `at`.
Resume(r, at) ==
    /\ pc[r] = at
    /\ UNCHANGED <<received, users>>

InFlight(at) == Cardinality({q \in Reqs : pc[q] = at})

\* A createBlog that skips its lookup.
MutExistingBlog(title, caller) == FALSE

\* createBlog line 28: Blog.findOne({ title, author: req.user._id })
existingBlog(title, caller) ==
    \E i \in DOMAIN blogs : blogs[i].title = title /\ blogs[i].author = caller

\* Handlers that skip the ownership test.
MutNotAuthor(doc, caller) == FALSE

\* blog.author.toString() !== req.user._id.toString()
notAuthor(doc, caller) == doc.author # caller

\* A lookup by _id alone.
MutFindPublished(id) == id \in DOMAIN blogs

\* getPublishedBlogById line 128: Blog.findOne({ _id, state: 'published' })
findPublished(id) == id \in DOMAIN blogs /\ blogs[id].state = "published"

\* A read that leaves the count as it was.
MutIncrement(n) == n

\* blog.read_count += 1
increment(n) == n + 1

\* createBlog up to the await of Blog.create: Joi validation, then the
\* findOne({title, author}) pre-check.
createBlog(r, caller, b) ==
    /\ Receive(r)
    /\ UNCHANGED <<blogs, nextId>>
    /\ LET req == [caller |-> caller, body |-> b]
           error == blogSchema(b, FALSE) IN
       IF error # NoError
       THEN Respond(r, Response("createBlog", req, 400, error))
       ELSE IF existingBlog(b.title, caller)
       THEN Respond(r, Response("createBlog", req, 400,
                                "You already have a blog with this title."))
       ELSE /\ nextId + InFlight("create") < MaxPosts
            /\ Suspend(r, "create", [req |-> req])

\* createBlog from Blog.create on: the insert, answered 201, or the
\* duplicate key error 11000 of the unique index, answered 400.
createBlog_create(r) ==
    /\ Resume(r, "create")
    /\ LET req == loc[r].req
           doc == NewDoc(req.caller, req.body) IN
       IF TitleIndexHit(doc.title, 0)
       THEN /\ Respond(r, Response("createBlog", req, 400,
                   "A blog with this title already exists globally. Please choose a different title."))
            /\ UNCHANGED <<blogs, nextId>>
       ELSE /\ nextId' = nextId + 1
            /\ blogs' = [i \in DOMAIN blogs \cup {nextId + 1} |->
                            IF i = nextId + 1 THEN doc ELSE blogs[i]]
            /\ Respond(r, ResponseBlog("createBlog", req, 201, nextId + 1, doc))

\* A store without the unique index on title.
MutSaveOutcome(id, doc, mod) ==
    IF id \notin DOMAIN blogs THEN "missing" ELSE "saved"

\* document.save() of an existing document: updateOne({_id}, {$set: delta})
\* where delta holds the modified paths only.  "missing": no document has
\* the _id any more (DocumentNotFoundError); "duplicate": error 11000.
saveOutcome(id, doc, mod) ==
    IF id \notin DOMAIN blogs THEN "missing"
    ELSE IF "title" \in mod /\ TitleIndexHit(doc.title, id) THEN "duplicate"
    ELSE "saved"

\* A save that writes the whole loaded document, not only its modified paths.
MutSaveDelta(id, doc, mod) ==
    [blogs EXCEPT ![id] = preSave(doc, mod, FALSE)]

\* The collection after the $set of the modified paths.
saveDelta(id, doc, mod) ==
    LET d == preSave(doc, mod, FALSE)
        delta == mod \cup (IF d.reading_time # doc.reading_time
                           THEN {"reading_time"} ELSE {})
    IN [blogs EXCEPT ![id] =
           [k \in DOMAIN blogs[id] \cup delta |->
               IF k \in delta THEN d[k] ELSE blogs[id][k]]]

\* A save that inserts the document when no document has its _id.
MutSaveAndRespond(r, op, dup) ==
    LET req == loc[r].req
        d == preSave(loc[r].doc, loc[r].mod, FALSE) IN
    /\ UNCHANGED nextId
    /\ blogs' = [i \in DOMAIN blogs \cup {req.id} |->
                    IF i = req.id THEN d ELSE blogs[i]]
    /\ Respond(r, ResponseBlog(op, req, 200, req.id, d))

\* await blog.save(), then res.json(blog) with the in-memory document;
\* `dup` is the answer to error 11000, the generic 500 where the catch has
\* no branch for it.
saveAndRespond(r, op, dup) ==
    LET req == loc[r].req
        out == saveOutcome(req.id, loc[r].doc, loc[r].mod) IN
    /\ UNCHANGED nextId
    /\ CASE out = "saved" ->
                /\ blogs' = saveDelta(req.id, loc[r].doc, loc[r].mod)
                /\ Respond(r, ResponseBlog(op, req, 200, req.id,
                                           preSave(loc[r].doc, loc[r].mod, FALSE)))
         [] out = "duplicate" ->
                /\ UNCHANGED blogs
                /\ Respond(r, Response(op, req, dup.status, dup.message))
         [] OTHER ->
                /\ UNCHANGED blogs
                /\ Respond(r, Response(op, req, 500, "Server error"))

ServerError == [status |-> 500, message |-> "Server error"]

\* getPublishedBlogById up to the await of blog.save():
\* findOne({_id, state: 'published'}), then blog.read_count += 1 in memory.
getPublishedBlogById(r, id) ==
    /\ Receive(r)
    /\ UNCHANGED <<blogs, nextId>>
    /\ LET req == [id |-> id] IN
       IF findPublished(id)
       THEN Suspend(r, "get_save",
                    [req |-> req,
                     doc |-> [blogs[id] EXCEPT !.read_count = increment(@)],
                     mod |-> {"read_count"}])
       ELSE Respond(r, Response("getPublishedBlogById", req, 404,
                                "Blog not found or not published"))

\* getPublishedBlogById from blog.save() on.
getPublishedBlogById_save(r) ==
    /\ Resume(r, "get_save")
    /\ saveAndRespond(r, "getPublishedBlogById", ServerError)

\* JS truthiness of a body string: only "" is falsy.
Truthy(body) == body.words > 0 \/ body.lead \/ body.trail

\* Assignments that also copy an author key of the body.
MutApplyFields(doc, b) ==
    LET d1 == IF Has(b, "title") THEN [doc EXCEPT !.title = b.title] ELSE doc
        d2 == IF Has(b, "description") THEN Put(d1, "description", b.description) ELSE d1
        d3 == IF Has(b, "tags") THEN [d2 EXCEPT !.tags = b.tags] ELSE d2
        d4 == IF Has(b, "body") /\ Truthy(b.body) THEN [d3 EXCEPT !.body = b.body] ELSE d3
        d5 == IF Has(b, "author") THEN [d4 EXCEPT !.author = b.author] ELSE d4
    IN IF Has(b, "state") THEN [d5 EXCEPT !.state = b.state] ELSE d5

\* updateBlog lines 218-224: the fields of req.body copied onto the loaded
\* document.
applyFields(doc, b) ==
    LET d1 == IF Has(b, "title") THEN [doc EXCEPT !.title = b.title] ELSE doc
        d2 == IF Has(b, "description") THEN Put(d1, "description", b.description) ELSE d1
        d3 == IF Has(b, "tags") THEN [d2 EXCEPT !.tags = b.tags] ELSE d2
        d4 == IF Has(b, "body") /\ Truthy(b.body) THEN [d3 EXCEPT !.body = b.body] ELSE d3
    IN IF Has(b, "state") THEN [d4 EXCEPT !.state = b.state] ELSE d4

\* The paths Mongoose marks modified: those whose value differs from the
\* loaded one.
modifiedPaths(old, new) ==
    {k \in DOMAIN new : k \notin DOMAIN old \/ new[k] # old[k]}

\* updateBlog up to the await of blog.save(): findById, the ownership
\* check, Joi validation, then the assignments.
updateBlog(r, caller, id, b) ==
    /\ Receive(r)
    /\ UNCHANGED <<blogs, nextId>>
    /\ LET req == [caller |-> caller, id |-> id, body |-> b] IN
       IF id \notin DOMAIN blogs
       THEN Respond(r, Response("updateBlog", req, 404, "Blog not found"))
       ELSE IF notAuthor(blogs[id], caller)
       THEN Respond(r, Response("updateBlog", req, 403,
                                "Not authorized to update this blog"))
       ELSE LET error == blogSchema(b, TRUE) IN
            IF error # NoError
            THEN Respond(r, Response("updateBlog", req, 400, error))
            ELSE LET doc == applyFields(blogs[id], b) IN
                 Suspend(r, "update_save",
                         [req |-> req, doc |-> doc,
                          mod |-> modifiedPaths(blogs[id], doc)])

\* updateBlog from blog.save() on.
updateBlog_save(r) ==
    /\ Resume(r, "update_save")
    /\ saveAndRespond(r, "updateBlog",
          [status |-> 400,
           message |-> "A blog with this title already exists. Please choose a different title."])

\* JSON request bodies of PATCH /api/blogs/:id/state.
StateBodies ==
    { [state |-> "draft"], [state |-> "published"], [state |-> "archived"],
      [title |-> "t2"] }

\* updateBlogState up to the await of blog.save(): the state check comes
\* first, then findById and the ownership check.
updateBlogState(r, caller, id, b) ==
    /\ Receive(r)
    /\ UNCHANGED <<blogs, nextId>>
    /\ LET req == [caller |-> caller, id |-> id, body |-> b] IN
       IF ~Has(b, "state") \/ b.state \notin {"draft", "published"}
       THEN Respond(r, Response("updateBlogState", req, 400,
                "Invalid state provided. Must be \"draft\" or \"published\"."))
       ELSE IF id \notin DOMAIN blogs
       THEN Respond(r, Response("updateBlogState", req, 404, "Blog not found"))
       ELSE IF notAuthor(blogs[id], caller)
       THEN Respond(r, Response("updateBlogState", req, 403,
                "Not authorized to update this blog's state"))
       ELSE LET doc == [blogs[id] EXCEPT !.state = b.state] IN
            Suspend(r, "state_save",
                    [req |-> req, doc |-> doc,
                     mod |-> modifiedPaths(blogs[id], doc)])

\* updateBlogState from blog.save() on; its catch has no 11000 branch.
updateBlogState_save(r) ==
    /\ Resume(r, "state_save")
    /\ saveAndRespond(r, "updateBlogState", ServerError)

\* deleteBlog up to the await of Blog.deleteOne: findById and the ownership
\* check.
deleteBlog(r, caller, id) ==
    /\ Receive(r)
    /\ UNCHANGED <<blogs, nextId>>
    /\ LET req == [caller |-> caller, id |-> id] IN
       IF id \notin DOMAIN blogs
       THEN Respond(r, Response("deleteBlog", req, 404, "Blog not found"))
       ELSE IF notAuthor(blogs[id], caller)
       THEN Respond(r, Response("deleteBlog", req, 403,
                                "Not authorized to delete this blog"))
       ELSE Suspend(r, "delete", [req |-> req])

\* A deleteOne that removes nothing.
MutDeleteOne(r) ==
    /\ Resume(r, "delete")
    /\ UNCHANGED <<blogs, nextId>>
    /\ Respond(r, Response("deleteBlog", loc[r].req, 200, "Blog removed"))

\* deleteBlog from Blog.deleteOne({_id}) on.
deleteBlog_deleteOne(r) ==
    /\ Resume(r, "delete")
    /\ UNCHANGED nextId
    /\ blogs' = [i \in DOMAIN blogs \ {loc[r].req.id} |-> blogs[i]]
    /\ Respond(r, Response("deleteBlog", loc[r].req, 200, "Blog removed"))

\* ------------------------------------------------------------------------
\* Listings: getPublishedBlogs and getMyBlogs

\* models/User.js: a password, as its text and its number of characters.
Password1 == [text |-> "secret1", len |-> 7]
Password2 == [text |-> "secret2", len |-> 7]
ShortPassword == [text |-> "abc", len |-> 3]

\* The password a saved user holds: a one-way hash of the text, equal for
\* equal texts only.
hash(password) == [hashed |-> password.text]

\* user.matchPassword(enteredPassword): the entered password hashes to the
\* stored one.
matchPassword(user, password) == user.password = hash(password)

\* The users registered before the first request of /api/blogs: _id ->
\* names, as letters.
UserDocs ==
    [u \in Users |->
        IF u = "u1"
        THEN [first_name |-> <<"A", "n", "n">>, last_name |-> <<"L", "e", "e">>,
              email |-> "e1", password |-> hash(Password1)]
        ELSE [first_name |-> <<"B", "o", "b">>, last_name |-> <<"L", "e", "e">>,
              email |-> "e2", password |-> hash(Password1)]]

\* The letters of a title, for the title filter.
Letters(title) == IF title = "t1" THEN <<"T", "e", "c", "h">> ELSE <<"A", "r", "t">>

Num(n) == [nan |-> FALSE, n |-> n]
NaN == [nan |-> TRUE, n |-> 0]

\* parseInt(x) || dflt: an absent or non-numeric parameter and 0 give dflt.
parseIntOr(q, f, dflt) ==
    IF ~Has(q, f) \/ q[f].nan \/ q[f].n = 0 THEN dflt ELSE q[f].n

lower(c) ==
    CASE c = "A" -> "a" [] c = "B" -> "b" [] c = "L" -> "l" [] c = "T" -> "t"
      [] c = "E" -> "e" [] OTHER -> c

\* { $regex: pattern, $options: 'i' } for a pattern of plain letters.
regexI(pattern, text) ==
    \E i \in 0..(Len(text) - Len(pattern)) :
        \A k \in 1..Len(pattern) : lower(text[i + k]) = lower(pattern[k])

\* A lookup that finds every user.
MutAuthorIds(author) == Users

\* User.find({$or: [{first_name: regex}, {last_name: regex}]}).select('_id')
authorIds(author) ==
    {u \in DOMAIN users : \/ regexI(author, users[u].first_name)
                          \/ regexI(author, users[u].last_name)}

\* tags.split(',').map(tag => tag.trim())
tagArray(tags) == {tags[k].text : k \in 1..Len(tags)}

TagsOf(doc) == {doc.tags[k] : k \in 1..Len(doc.tags)}

\* The same query asking for all of the tags, not for any of them.
MutTagsAll(q) ==
    {i \in DOMAIN blogs :
        /\ blogs[i].state = "published"
        /\ Has(q, "author") => blogs[i].author \in authorIds(q.author)
        /\ Has(q, "title") => regexI(q.title, Letters(blogs[i].title))
        /\ Has(q, "tags") => tagArray(q.tags) \subseteq TagsOf(blogs[i])}

\* The same query without its state filter.
MutPublishedQuery(q) ==
    {i \in DOMAIN blogs :
        /\ Has(q, "author") => blogs[i].author \in authorIds(q.author)
        /\ Has(q, "title") => regexI(q.title, Letters(blogs[i].title))
        /\ Has(q, "tags") => TagsOf(blogs[i]) \cap tagArray(q.tags) # {}}

\* The documents the query of getPublishedBlogs selects.
publishedQuery(q) ==
    {i \in DOMAIN blogs :
        /\ blogs[i].state = "published"
        /\ Has(q, "author") => blogs[i].author \in authorIds(q.author)
        /\ Has(q, "title") => regexI(q.title, Letters(blogs[i].title))
        /\ Has(q, "tags") => TagsOf(blogs[i]) \cap tagArray(q.tags) # {}}

\* sortOptions of getPublishedBlogs: createdAt is sorted under the key
\* 'timestamp'; an unrecognised field leaves sortOptions empty.
sortOptions(q) ==
    IF Has(q, "order_by")
    THEN IF q.order_by.field \in {"read_count", "reading_time", "createdAt"}
         THEN [key |-> IF q.order_by.field = "createdAt" THEN "timestamp"
                       ELSE q.order_by.field,
               dir |-> IF q.order_by.direction = "asc" THEN 1 ELSE -1]
         ELSE [key |-> "none", dir |-> 1]
    ELSE [key |-> "createdAt", dir |-> -1]

\* The value a document is sorted by; no document has a 'timestamp' field,
\* and createdAt grows with _id.
sortKey(i, key) ==
    CASE key = "createdAt" -> i
      [] key = "read_count" -> blogs[i].read_count
      [] key = "reading_time" -> blogs[i].reading_time
      [] OTHER -> 0

\* .sort(sortOptions): every order of the selected documents that respects
\* the sort key; documents with equal keys come in any order.
sorted(S, so) ==
    {s \in [1..Cardinality(S) -> S] :
        /\ \A a, b \in 1..Cardinality(S) : a # b => s[a] # s[b]
        /\ \A a \in 1..(Cardinality(S) - 1) :
              so.dir * sortKey(s[a], so.key) <= so.dir * sortKey(s[a + 1], so.key)}

\* .skip(skip).limit(limit); a negative limit is sent as its absolute value.
pageOf(s, skip, limit) ==
    LET n == IF limit < 0 THEN -limit ELSE limit
        hi == IF skip + n < Len(s) THEN skip + n ELSE Len(s)
    IN [k \in 1..(IF hi > skip THEN hi - skip ELSE 0) |-> s[skip + k]]

\* Math.floor in the place of Math.ceil.
MutTotalPages(totalBlogs, limit) == totalBlogs \div limit

\* Math.ceil(totalBlogs / limit)
totalPages(totalBlogs, limit) ==
    IF limit > 0 THEN (totalBlogs + limit - 1) \div limit
    ELSE -(totalBlogs \div (-limit))

Snapshot(ids) == [k \in 1..Len(ids) |-> Put(blogs[ids[k]], "_id", ids[k])]

\* res.json({blogs, totalPages, currentPage})
ResponseList(op, req, found, pages, page) ==
    [op |-> op, req |-> req, status |-> 200, message |-> "", blogs |-> found,
     totalPages |-> pages, currentPage |-> page]

\* Query strings of GET /api/blogs.
PublishedQueries ==
    { <<>>,
      [page |-> Num(2), limit |-> Num(1)],
      [page |-> Num(-1)],
      [author |-> <<"z">>],
      [author |-> <<"a", "N">>, order_by |-> [field |-> "read_count", direction |-> "desc"]],
      [title |-> <<"t">>, tags |-> <<[text |-> "x", pad |-> TRUE]>>],
      [page |-> NaN, order_by |-> [field |-> "title", direction |-> "asc"]] }

\* getPublishedBlogs up to the await of Blog.countDocuments: the author
\* lookup, the query, and Blog.find(query).sort().skip().limit().  A
\* negative skip makes the find fail.
getPublishedBlogs(r, q) ==
    /\ Receive(r)
    /\ UNCHANGED <<blogs, nextId>>
    /\ LET req == [query |-> q]
           page == parseIntOr(q, "page", 1)
           limit == parseIntOr(q, "limit", 20)
           skip == (page - 1) * limit
       IN IF Has(q, "author") /\ authorIds(q.author) = {}
          THEN Respond(r, ResponseList("getPublishedBlogs", req, <<>>, 0, page))
          ELSE IF skip < 0
          THEN Respond(r, Response("getPublishedBlogs", req, 500, "Server error"))
          ELSE \E s \in sorted(publishedQuery(q), sortOptions(q)) :
                  Suspend(r, "published_count",
                          [req |-> req, blogs |-> Snapshot(pageOf(s, skip, limit))])

\* getPublishedBlogs from Blog.countDocuments(query) on.
getPublishedBlogs_countDocuments(r) ==
    /\ Resume(r, "published_count")
    /\ UNCHANGED <<blogs, nextId>>
    /\ LET q == loc[r].req.query IN
       Respond(r, ResponseList("getPublishedBlogs", loc[r].req, loc[r].blogs,
                   totalPages(Cardinality(publishedQuery(q)), parseIntOr(q, "limit", 20)),
                   parseIntOr(q, "page", 1)))

\* The same query without its author.
MutMyQuery(caller, q) ==
    {i \in DOMAIN blogs :
        (Has(q, "state") /\ q.state \in {"draft", "published"})
           => blogs[i].state = q.state}

\* The documents the query of getMyBlogs selects.
myQuery(caller, q) ==
    {i \in DOMAIN blogs :
        /\ blogs[i].author = caller
        /\ (Has(q, "state") /\ q.state \in {"draft", "published"})
              => blogs[i].state = q.state}

\* Query strings of GET /api/blogs/my-blogs.
MyQueries ==
    { <<>>, [state |-> "draft"], [state |-> "archived"],
      [page |-> Num(2), limit |-> Num(1)] }

\* getMyBlogs up to the await of Blog.countDocuments.
getMyBlogs(r, caller, q) ==
    /\ Receive(r)
    /\ UNCHANGED <<blogs, nextId>>
    /\ LET req == [caller |-> caller, query |-> q]
           page == parseIntOr(q, "page", 1)
           limit == parseIntOr(q, "limit", 20)
           skip == (page - 1) * limit
       IN IF skip < 0
          THEN Respond(r, Response("getMyBlogs", req, 500, "Server error"))
          ELSE \E s \in sorted(myQuery(caller, q), [key |-> "createdAt", dir |-> -1]) :
                  Suspend(r, "my_count",
                          [req |-> req, blogs |-> Snapshot(pageOf(s, skip, limit))])

\* getMyBlogs from Blog.countDocuments(query) on.
getMyBlogs_countDocuments(r) ==
    /\ Resume(r, "my_count")
    /\ UNCHANGED <<blogs, nextId>>
    /\ LET q == loc[r].req.query IN
       Respond(r, ResponseList("getMyBlogs", loc[r].req, loc[r].blogs,
                   totalPages(Cardinality(myQuery(loc[r].req.caller, q)),
                              parseIntOr(q, "limit", 20)),
                   parseIntOr(q, "page", 1)))

\* ------------------------------------------------------------------------
\* authController: registerUser and loginUser

\* Joi: password: Joi.string().min(6)
MinPassword == 6

\* Email addresses, given in lower case without surrounding blanks.
Emails == {"e1", "e2"}

\* JSON request bodies of POST /api/auth/register.
RegisterBodies ==
    { [first_name |-> <<"A", "n", "n">>, last_name |-> <<"L", "e", "e">>,
       email |-> e, password |-> p] : e \in Emails, p \in {Password1, Password2} }
    \cup { [first_name |-> <<"A", "n", "n">>, last_name |-> <<"L", "e", "e">>,
            email |-> "e1", password |-> ShortPassword],
           [first_name |-> <<"A", "n", "n">>, email |-> "e1",
            password |-> Password1] }

\* JSON request bodies of POST /api/auth/login.
LoginBodies ==
    { [email |-> e, password |-> p] : e \in Emails, p \in {Password1, Password2} }
    \cup { [email |-> "e1"] }

\* registerSchema.validate(req.body): the message of the first error.
registerSchema(b) ==
    IF ~Has(b, "first_name") THEN "\"first_name\" is required"
    ELSE IF ~Has(b, "last_name") THEN "\"last_name\" is required"
    ELSE IF ~Has(b, "email") THEN "\"email\" is required"
    ELSE IF ~Has(b, "password") THEN "\"password\" is required"
    ELSE IF b.password.len < MinPassword
         THEN "\"password\" length must be at least 6 characters long"
    ELSE NoError

\* loginSchema.validate(req.body): the message of the first error.
loginSchema(b) ==
    IF ~Has(b, "email") THEN "\"email\" is required"
    ELSE IF ~Has(b, "password") THEN "\"password\" is required"
    ELSE NoError

\* jwt.sign({ id }, process.env.JWT_SECRET, { expiresIn: '1h' })
generateToken(id) == [id |-> id]

\* res.status(status).json({ _id, first_name, last_name, email, token })
ResponseUser(op, req, status, id, user) ==
    [op |-> op, req |-> req, status |-> status, message |-> "",
     user |-> [_id |-> id, first_name |-> user.first_name,
               last_name |-> user.last_name, email |-> user.email],
     token |-> generateToken(id)]

\* The users User.findOne({ email }) can resolve to.
usersWithEmail(email) == {u \in DOMAIN users : users[u].email = email}

\* A registerUser that skips its lookup.
MutUserExists(email) == FALSE

\* registerUser lines 41-44: const userExists = await User.findOne({ email })
userExists(email) == usersWithEmail(email) # {}

\* A login that does not test the password.
MutCredentialsOk(u, password) == TRUE

\* loginUser line 87: user && (await user.matchPassword(password)), for the
\* user u that findOne resolved to.
credentialsOk(u, password) == matchPassword(users[u], password)

\* The _id of the n-th user inserted.
AccountId(n) == "u" \o ToString(n)

\* registerUser up to the await of User.create: Joi validation, then the
\* findOne({ email }) lookup.
registerUser(r, b) ==
    /\ Accept(r)
    /\ UNCHANGED <<blogs, nextId, users>>
    /\ LET req == [body |-> b]
           error == registerSchema(b) IN
       IF error # NoError
       THEN Respond(r, Response("registerUser", req, 400, error))
       ELSE IF userExists(b.email)
       THEN Respond(r, Response("registerUser", req, 400,
                                "User with that email already exists"))
       ELSE Suspend(r, "user_create", [req |-> req])

\* registerUser from User.create on: the insert, answered 201 with a token.
registerUser_create(r) ==
    /\ pc[r] = "user_create"
    /\ UNCHANGED <<received, blogs, nextId>>
    /\ LET b == loc[r].req.body
           id == AccountId(Cardinality(DOMAIN users) + 1)
           user == [first_name |-> b.first_name, last_name |-> b.last_name,
                    email |-> b.email, password |-> hash(b.password)] IN
       /\ users' = [u \in DOMAIN users \cup {id} |->
                       IF u = id THEN user ELSE users[u]]
       /\ Respond(r, ResponseUser("registerUser", loc[r].req, 201, id, user))

\* loginUser: Joi validation, findOne({ email }), matchPassword, and the
\* answer; it writes nothing.
loginUser(r, b) ==
    /\ Accept(r)
    /\ UNCHANGED <<blogs, nextId, users>>
    /\ LET req == [body |-> b]
           error == loginSchema(b) IN
       IF error # NoError
       THEN Respond(r, Response("loginUser", req, 400, error))
       ELSE IF usersWithEmail(b.email) = {}
       THEN Respond(r, Response("loginUser", req, 401, "Invalid credentials"))
       ELSE \E u \in usersWithEmail(b.email) :
               IF credentialsOk(u, b.password)
               THEN Respond(r, ResponseUser("loginUser", req, 200, u, users[u]))
               ELSE Respond(r, Response("loginUser", req, 401, "Invalid credentials"))

Init ==
    /\ blogs = <<>>
    /\ users = UserDocs
    /\ nextId = 0
    /\ pc = [r \in Reqs |-> "idle"]
    /\ loc = [r \in Reqs |-> NoLoc]
    /\ last = NoResponse
    /\ received = 0

\* Every step the handler of slot r can take.
Handlers(r) ==
    \/ \E caller \in Users, b \in ReqBodies : createBlog(r, caller, b)
    \/ createBlog_create(r)
    \/ \E id \in Ids : getPublishedBlogById(r, id)
    \/ getPublishedBlogById_save(r)
    \/ \E caller \in Users, id \in Ids, b \in ReqBodies : updateBlog(r, caller, id, b)
    \/ updateBlog_save(r)
    \/ \E caller \in Users, id \in Ids, b \in StateBodies : updateBlogState(r, caller, id, b)
    \/ updateBlogState_save(r)
    \/ \E caller \in Users, id \in Ids : deleteBlog(r, caller, id)
    \/ deleteBlog_deleteOne(r)
    \/ \E q \in PublishedQueries : getPublishedBlogs(r, q)
    \/ getPublishedBlogs_countDocuments(r)
    \/ \E caller \in Users, q \in MyQueries : getMyBlogs(r, caller, q)
    \/ getMyBlogs_countDocuments(r)

Next == \E r \in Reqs : Handlers(r)

\* Any interleaving of the handlers of up to MaxInFlight requests.
Spec == Init /\ [][Next]_vars

\* Every other slot is idle.
Alone(r) == \A o \in Reqs \ {r} : pc[o] = "idle"

\* No concurrent requests: a handler runs only while every other slot is
\* idle.
SeqNext == \E r \in Reqs :
    \/ Alone(r) /\ \E caller \in Users, b \in ReqBodies : createBlog(r, caller, b)
    \/ Alone(r) /\ createBlog_create(r)
    \/ Alone(r) /\ \E id \in Ids : getPublishedBlogById(r, id)
    \/ Alone(r) /\ getPublishedBlogById_save(r)
    \/ Alone(r) /\ \E caller \in Users, id \in Ids, b \in ReqBodies : updateBlog(r, caller, id, b)
    \/ Alone(r) /\ updateBlog_save(r)
    \/ Alone(r) /\ \E caller \in Users, id \in Ids, b \in StateBodies : updateBlogState(r, caller, id, b)
    \/ Alone(r) /\ updateBlogState_save(r)
    \/ Alone(r) /\ \E caller \in Users, id \in Ids : deleteBlog(r, caller, id)
    \/ Alone(r) /\ deleteBlog_deleteOne(r)
    \/ Alone(r) /\ \E q \in PublishedQueries : getPublishedBlogs(r, q)
    \/ Alone(r) /\ getPublishedBlogs_countDocuments(r)
    \/ Alone(r) /\ \E caller \in Users, q \in MyQueries : getMyBlogs(r, caller, q)
    \/ Alone(r) /\ getMyBlogs_countDocuments(r)

SeqSpec == Init /\ [][SeqNext]_vars

\* Every combination of the query parameters of GET /api/blogs.
Opt(f, S) == {<<>>} \cup {f :> v : v \in S}

AllPublishedQueries ==
    {pg @@ lm @@ au @@ ti @@ tg @@ ob :
        pg \in Opt("page", {Num(2)}),
        lm \in Opt("limit", {Num(1)}),
        au \in Opt("author", {<<"z">>, <<"a", "N">>}),
        ti \in Opt("title", {<<"a", "R">>}),
        tg \in Opt("tags", {<<[text |-> "y", pad |-> FALSE], [text |-> "x", pad |-> TRUE]>>}),
        ob \in Opt("order_by", {[field |-> "read_count", direction |-> "desc"],
                                [field |-> "title", direction |-> "asc"]})}

\* The steps of creating posts, changing their state and listing the
\* published ones with every combination of parameters, one request at a
\* time.
ListNext == \E r \in Reqs :
    \/ Alone(r) /\ \E caller \in Users, b \in ReqBodies : createBlog(r, caller, b)
    \/ Alone(r) /\ createBlog_create(r)
    \/ Alone(r) /\ \E caller \in Users, id \in Ids, b \in StateBodies : updateBlogState(r, caller, id, b)
    \/ Alone(r) /\ updateBlogState_save(r)
    \/ Alone(r) /\ \E q \in AllPublishedQueries : getPublishedBlogs(r, q)
    \/ Alone(r) /\ getPublishedBlogs_countDocuments(r)

ListSpec == Init /\ [][ListNext]_vars

\* Request bodies of POST /api/blogs for the listings: posts that differ in
\* state, tags and reading time.
QueryBodies ==
    { [title |-> "t1", body |-> Body1],
      [title |-> "t1", body |-> Body1, state |-> "published", tags |-> <<"w">>],
      [title |-> "t2", body |-> Body2, state |-> "published", tags |-> <<"x">>],
      [title |-> "t2", body |-> Body2, state |-> "published", tags |-> <<"x", "w">>] }

\* page and limit of a query string: absent, non-numeric, zero, negative,
\* and pages up to one beyond the last.
PageQueries ==
    {pg @@ lm :
        pg \in Opt("page", {NaN, Num(0), Num(-1), Num(1), Num(2), Num(3)}),
        lm \in Opt("limit", {Num(1), Num(2)})}

\* Query strings of GET /api/blogs: the pages, every order_by, tags and
\* authors.
ListQueries ==
    PageQueries
    \cup {[order_by |-> [field |-> f, direction |-> d]] :
             f \in {"read_count", "reading_time", "createdAt", "title"},
             d \in {"asc", "desc"}}
    \cup {[tags |-> <<[text |-> "y", pad |-> FALSE], [text |-> "x", pad |-> TRUE]>>],
          [tags |-> <<[text |-> "w", pad |-> FALSE]>>],
          [author |-> <<"z">>],
          [author |-> <<"z">>, page |-> Num(2), tags |-> <<[text |-> "x", pad |-> FALSE]>>],
          [author |-> <<"a", "N">>],
          [author |-> <<"l", "E">>, title |-> <<"a", "R">>],
          [author |-> <<"z">>, page |-> Num(-1)],
          [limit |-> Num(-1)]}

\* Query strings of GET /api/blogs/my-blogs: the pages and every state.
MineQueries ==
    PageQueries
    \cup {[state |-> "draft"], [state |-> "published"], [state |-> "archived"],
          [state |-> "published", page |-> Num(2), limit |-> Num(1)],
          [limit |-> Num(-1)]}

\* Posts are created, read, published and withdrawn, and both listings are
\* asked for with ListQueries and MineQueries, one request at a time, so
\* that the store does not change during a listing.
QueryNext == \E r \in Reqs :
    \/ Alone(r) /\ \E caller \in Users, b \in QueryBodies : createBlog(r, caller, b)
    \/ Alone(r) /\ createBlog_create(r)
    \/ Alone(r) /\ \E id \in Ids : getPublishedBlogById(r, id)
    \/ Alone(r) /\ getPublishedBlogById_save(r)
    \/ Alone(r) /\ \E caller \in Users, id \in Ids, b \in StateBodies : updateBlogState(r, caller, id, b)
    \/ Alone(r) /\ updateBlogState_save(r)
    \/ Alone(r) /\ \E q \in ListQueries : getPublishedBlogs(r, q)
    \/ Alone(r) /\ getPublishedBlogs_countDocuments(r)
    \/ Alone(r) /\ \E caller \in Users, q \in MineQueries : getMyBlogs(r, caller, q)
    \/ Alone(r) /\ getMyBlogs_countDocuments(r)

QuerySpec == Init /\ [][QueryNext]_vars

\* No user registered yet.
AuthInit ==
    /\ blogs = <<>>
    /\ users = <<>>
    /\ nextId = 0
    /\ pc = [r \in Reqs |-> "idle"]
    /\ loc = [r \in Reqs |-> NoLoc]
    /\ last = NoResponse
    /\ received = 0

\* The requests of /api/auth, one at a time.
AuthNext == \E r \in Reqs :
    \/ Alone(r) /\ \E b \in RegisterBodies : registerUser(r, b)
    \/ Alone(r) /\ registerUser_create(r)
    \/ Alone(r) /\ \E b \in LoginBodies : loginUser(r, b)

AuthSpec == AuthInit /\ [][AuthNext]_vars

\* ------------------------------------------------------------------------
\* Store calls that fail

\* The handler suspended at each await.
HandlerAt(at) ==
    CASE at = "create" -> "createBlog"
      [] at = "get_save" -> "getPublishedBlogById"
      [] at = "update_save" -> "updateBlog"
      [] at = "state_save" -> "updateBlogState"
      [] at = "delete" -> "deleteBlog"
      [] at = "published_count" -> "getPublishedBlogs"
      [] OTHER -> "getMyBlogs"

\* The awaited store call of the handler of slot r rejects with an error
\* that has no code 11000: every such await is inside the handler's try
\* block, whose catch answers 500.
awaitRejects(r) ==
    /\ pc[r] \in {"create", "get_save", "update_save", "state_save", "delete",
                  "published_count", "my_count"}
    /\ UNCHANGED <<received, users, blogs, nextId>>
    /\ Respond(r, Response(HandlerAt(pc[r]), loc[r].req, 500, "Server error"))

\* The first store call of a handler rejects, inside its try block:
\* Blog.findOne of createBlog and getPublishedBlogById, Blog.findById of
\* updateBlog, updateBlogState and deleteBlog, Blog.find of the listings.
firstCallRejects(r, op, req) ==
    /\ Receive(r)
    /\ UNCHANGED <<blogs, nextId>>
    /\ Respond(r, Response(op, req, 500, "Server error"))

\* getPublishedBlogs lines 64-80: the await of User.find is outside the try
\* block that starts at line 101, so its rejection rejects the promise of
\* the handler.  Express 4 ignores that promise and nothing answers the
\* request; Express 5 passes the error to the error handler of app2.js,
\* which sends 500 'Something broke!'.
getPublishedBlogs_findRejects(r, q) ==
    /\ Receive(r)
    /\ Has(q, "author")
    /\ UNCHANGED <<blogs, nextId>>
    /\ \/ Suspend(r, "unanswered", [req |-> [query |-> q]])
       \/ Respond(r, Response("getPublishedBlogs", [query |-> q], 500,
                              "Something broke!"))

\* One request at a time, each store call either settling as in SeqNext or
\* rejecting.
FailNext == \E r \in Reqs :
    \/ Alone(r) /\ \E caller \in Users, b \in ReqBodies : createBlog(r, caller, b)
    \/ Alone(r) /\ createBlog_create(r)
    \/ Alone(r) /\ \E id \in Ids : getPublishedBlogById(r, id)
    \/ Alone(r) /\ getPublishedBlogById_save(r)
    \/ Alone(r) /\ \E caller \in Users, id \in Ids, b \in ReqBodies : updateBlog(r, caller, id, b)
    \/ Alone(r) /\ updateBlog_save(r)
    \/ Alone(r) /\ \E caller \in Users, id \in Ids, b \in StateBodies : updateBlogState(r, caller, id, b)
    \/ Alone(r) /\ updateBlogState_save(r)
    \/ Alone(r) /\ \E caller \in Users, id \in Ids : deleteBlog(r, caller, id)
    \/ Alone(r) /\ deleteBlog_deleteOne(r)
    \/ Alone(r) /\ \E q \in PublishedQueries : getPublishedBlogs(r, q)
    \/ Alone(r) /\ getPublishedBlogs_countDocuments(r)
    \/ Alone(r) /\ \E caller \in Users, q \in MyQueries : getMyBlogs(r, caller, q)
    \/ Alone(r) /\ getMyBlogs_countDocuments(r)
    \/ Alone(r) /\ awaitRejects(r)
    \/ Alone(r) /\ \E caller \in Users, b \in ReqBodies :
          /\ blogSchema(b, FALSE) = NoError
          /\ firstCallRejects(r, "createBlog", [caller |-> caller, body |-> b])
    \/ Alone(r) /\ \E id \in Ids :
          firstCallRejects(r, "getPublishedBlogById", [id |-> id])
    \/ Alone(r) /\ \E caller \in Users, id \in Ids, b \in ReqBodies :
          firstCallRejects(r, "updateBlog", [caller |-> caller, id |-> id, body |-> b])
    \/ Alone(r) /\ \E caller \in Users, id \in Ids, b \in StateBodies :
          /\ Has(b, "state") /\ b.state \in {"draft", "published"}
          /\ firstCallRejects(r, "updateBlogState",
                              [caller |-> caller, id |-> id, body |-> b])
    \/ Alone(r) /\ \E caller \in Users, id \in Ids :
          firstCallRejects(r, "deleteBlog", [caller |-> caller, id |-> id])
    \/ Alone(r) /\ \E q \in PublishedQueries :
          /\ Has(q, "author") => authorIds(q.author) # {}
          /\ firstCallRejects(r, "getPublishedBlogs", [query |-> q])
    \/ Alone(r) /\ \E caller \in Users, q \in MyQueries :
          firstCallRejects(r, "getMyBlogs", [caller |-> caller, query |-> q])
    \/ Alone(r) /\ \E q \in PublishedQueries : getPublishedBlogs_findRejects(r, q)

FailSpec == Init /\ [][FailNext]_vars

\* ------------------------------------------------------------------------
\* Properties

\* The step in which a request for `op` is received and answered at once;
\* last'.req is the request.
Immediate(op) == received' = received + 1 /\ last'.op = op

\* The step in which the handler of slot r receives the request loc'[r].req
\* and goes on to the store call it awaits at `at`.
Proceeds(r, at) == pc[r] = "idle" /\ pc'[r] = at

PairStored(title, caller) ==
    \E i \in DOMAIN blogs : blogs[i].title = title /\ blogs[i].author = caller

\* The step in which the handler of slot r, suspended at `at`, answers.
Answers(r, at) == pc[r] = at /\ pc'[r] = "idle"

Kept == DOMAIN blogs \cap DOMAIN blogs'

\* C1: every successful getPublishedBlogById raises the stored read_count
\* by exactly one, whatever the interleaving of the reads and the saves, so
\* that K completed calls leave it K higher.
C1_EveryReadCounted ==
    [][\A r \in Reqs :
          (Answers(r, "get_save") /\ last'.status = 200)
             => blogs'[loc[r].req.id].read_count
                   = blogs[loc[r].req.id].read_count + 1]_vars

\* C2: without concurrent requests every getPublishedBlogById on a published
\* post answers 200, raises the stored read_count by one and returns the
\* post with the raised count; a new post starts at 0, so the first call
\* returns 1 and the second 2.
C2_SequentialReads ==
    [][\A r \in Reqs :
          /\ Answers(r, "get_save") =>
                LET id == loc[r].req.id IN
                /\ last'.status = 200
                /\ blogs'[id].read_count = blogs[id].read_count + 1
                /\ last'.blog._id = id
                /\ last'.blog.read_count = blogs'[id].read_count
          /\ (Answers(r, "create") /\ nextId' # nextId) =>
                blogs'[nextId'].read_count = 0]_vars

C2_Witness ==
    /\ last.op = "getPublishedBlogById"
    /\ last.status = 200
    /\ last.blog.read_count = 2
    /\ blogs[last.req.id].read_count = 2

\* C3: read_count starts at 0, never decreases from one state to the next,
\* and changes only in the save of getPublishedBlogById.
C3_ReadCountMonotone ==
    [][/\ \A i \in DOMAIN blogs' \ DOMAIN blogs : blogs'[i].read_count = 0
       /\ \A i \in Kept : blogs'[i].read_count >= blogs[i].read_count
       /\ \A i \in Kept :
             blogs'[i].read_count # blogs[i].read_count
                => \E r \in Reqs : Answers(r, "get_save") /\ loc[r].req.id = i]_vars

\* C4: a create whose title is held by a post of another author, and by no
\* post of the caller, succeeds, and both posts are stored afterwards.
C4_TitleUniquePerAuthor ==
    [][\A r \in Reqs :
          (/\ Answers(r, "create")
           /\ \E i \in DOMAIN blogs : /\ blogs[i].title = loc[r].req.body.title
                                      /\ blogs[i].author # loc[r].req.caller
           /\ ~\E i \in DOMAIN blogs : /\ blogs[i].title = loc[r].req.body.title
                                       /\ blogs[i].author = loc[r].req.caller)
             => /\ last'.status = 201
                /\ Cardinality({i \in DOMAIN blogs' :
                                   blogs'[i].title = loc[r].req.body.title}) = 2]_vars

NoDuplicatePair ==
    \A i, j \in DOMAIN blogs :
        (blogs[i].title = blogs[j].title /\ blogs[i].author = blogs[j].author) => i = j

\* C5: a valid create received while a post with the same title and author
\* is stored is answered 400 'You already have a blog with this title.' and
\* stores nothing; and no two stored posts ever share title and author,
\* renames by updateBlog included.
C5_DuplicateRejected ==
    /\ [][/\ (/\ Immediate("createBlog")
              /\ blogSchema(last'.req.body, FALSE) = NoError
              /\ PairStored(last'.req.body.title, last'.req.caller))
                => /\ last'.status = 400
                   /\ last'.message = "You already have a blog with this title."
                   /\ blogs' = blogs
          /\ \A r \in Reqs :
                Proceeds(r, "create")
                   => ~PairStored(loc'[r].req.body.title, loc'[r].req.caller)]_vars
    /\ []NoDuplicatePair

C5_Witness ==
    /\ last.op = "createBlog"
    /\ last.status = 400
    /\ last.message = "You already have a blog with this title."
    /\ \E i \in DOMAIN blogs : /\ blogs[i].title = last.req.body.title
                               /\ blogs[i].author = last.req.caller

\* C6: a create that passed the pre-check and finds, at its insert, a post
\* with its title and author stored by a concurrent create, stores nothing
\* and is answered as the pre-check answers: 400 'You already have a blog
\* with this title.'
C6_RaceLoserGetsConflict ==
    [][\A r \in Reqs :
          (/\ Answers(r, "create")
           /\ \E i \in DOMAIN blogs : /\ blogs[i].title = loc[r].req.body.title
                                      /\ blogs[i].author = loc[r].req.caller)
             => /\ blogs' = blogs
                /\ last'.status = 400
                /\ last'.message = "You already have a blog with this title."]_vars

C8_DraftLooksMissing ==
    [][/\ \A r \in Reqs :
             Proceeds(r, "get_save")
                => /\ loc'[r].req.id \in DOMAIN blogs
                   /\ blogs[loc'[r].req.id].state # "draft"
       /\ Immediate("getPublishedBlogById")
             => /\ last'.status = 404
                /\ last'.message = "Blog not found or not published"
                /\ DOMAIN last' = {"op", "req", "status", "message"}
                /\ blogs' = blogs]_vars

C8_Witness ==
    /\ last.op = "getPublishedBlogById"
    /\ last.status = 404
    /\ last.req.id \in DOMAIN blogs
    /\ blogs[last.req.id].state = "draft"

ValidState(b) == Has(b, "state") /\ b.state \in {"draft", "published"}

\* The request last'.req names a stored post whose author is not its
\* caller.
ByOther == /\ last'.req.id \in DOMAIN blogs
           /\ blogs[last'.req.id].author # last'.req.caller

ByAuthor == /\ last'.req.id \in DOMAIN blogs
            /\ blogs[last'.req.id].author = last'.req.caller

Mine(r) == /\ loc'[r].req.id \in DOMAIN blogs
           /\ blogs[loc'[r].req.id].author = loc'[r].req.caller

C10_StateOnly ==
    [][\A r \in Reqs :
          (Answers(r, "state_save") /\ last'.status = 200)
             => /\ DOMAIN blogs' = DOMAIN blogs
                /\ \A i \in DOMAIN blogs :
                      /\ DOMAIN blogs'[i] = DOMAIN blogs[i]
                      /\ \A k \in DOMAIN blogs[i] :
                            (i # loc[r].req.id \/ k # "state") => blogs'[i][k] = blogs[i][k]
                /\ "state" \in loc[r].mod
                      => blogs'[loc[r].req.id].state = loc[r].req.body.state]_vars

C10_Witness ==
    /\ last.op = "updateBlogState"
    /\ last.status = 200
    /\ last.req.id \in DOMAIN blogs
    /\ blogs[last.req.id].state = last.req.body.state
    /\ blogs[last.req.id].read_count # last.blog.read_count

\* The fields updateBlog may change.
UpdatableFields == {"title", "description", "tags", "body", "state"}

\* Every field present in the body b is valid by the rules of createBlog.
FieldsValid(b) == Has(b, "state") => b.state \in {"draft", "published"}

\* C11: updateBlog by the author of a stored post accepts a body holding any
\* subset of title, description, tags, body and state, each valid: it is not
\* refused, and its save stores exactly the fields present and leaves the
\* absent ones as they were.
C11_PartialUpdate ==
    [][/\ (Immediate("updateBlog") /\ ByAuthor) => ~FieldsValid(last'.req.body)
       /\ \A r \in Reqs :
             (Answers(r, "update_save") /\ last'.status = 200)
                => LET b == loc[r].req.body
                       id == loc[r].req.id IN
                   \A k \in UpdatableFields :
                      IF Has(b, k)
                      THEN Has(blogs'[id], k) /\ blogs'[id][k] = b[k]
                      ELSE /\ Has(blogs'[id], k) = Has(blogs[id], k)
                           /\ Has(blogs[id], k) => blogs'[id][k] = blogs[id][k]]_vars

\* The number of non-empty tokens of a body split on runs of whitespace.
wordCount(body) == body.words

CeilDiv(a, b) == (a + b - 1) \div b

\* C12: every stored post has reading_time = ceil(wordCount(body) / 200),
\* leading and trailing whitespace adding no word; the saves of
\* updateBlogState and getPublishedBlogById leave it as it is.
C12_ReadingTime ==
    /\ [](\A i \in DOMAIN blogs :
             blogs[i].reading_time = CeilDiv(wordCount(blogs[i].body), 200))
    /\ [][\A r \in Reqs :
             (Answers(r, "state_save") \/ Answers(r, "get_save"))
                => \A i \in Kept : blogs'[i].reading_time = blogs[i].reading_time]_vars

Min(a, b) == IF a < b THEN a ELSE b

Max(a, b) == IF a > b THEN a ELSE b

\* The query string q asks for a page >= 1 with a limit >= 1, either of them
\* possibly left to its default.
GoodLimit(q) == Has(q, "limit") => ~q.limit.nan /\ q.limit.n >= 1

GoodPaging(q) ==
    /\ Has(q, "page") => ~q.page.nan /\ q.page.n >= 1
    /\ GoodLimit(q)

PageNo(q) == IF Has(q, "page") THEN q.page.n ELSE 1

LimitNo(q) == IF Has(q, "limit") THEN q.limit.n ELSE 20

\* A listing of page p with limit L out of M matching posts.
PageOfM(resp, M, p, L) ==
    /\ resp.status = 200
    /\ resp.totalPages = CeilDiv(M, L)
    /\ resp.currentPage = p
    /\ Len(resp.blogs) = Min(L, Max(0, M - (p - 1) * L))

\* C13: with the store unchanged during the call, M matching posts, page
\* p >= 1 and limit L >= 1, getPublishedBlogs and getMyBlogs answer
\* totalPages = ceil(M / L), currentPage = p and min(L, max(0, M - (p-1)*L))
\* posts, an empty list on a page beyond the end.
C13_Pagination ==
    [][/\ \A r \in Reqs :
             LET q == loc[r].req.query IN
             /\ (Answers(r, "published_count") /\ GoodPaging(q))
                   => PageOfM(last', Cardinality(publishedQuery(q)), PageNo(q), LimitNo(q))
             /\ (Answers(r, "my_count") /\ GoodPaging(q))
                   => PageOfM(last', Cardinality(myQuery(loc[r].req.caller, q)),
                              PageNo(q), LimitNo(q))
       /\ (Immediate("getPublishedBlogs") /\ GoodPaging(last'.req.query))
             => /\ publishedQuery(last'.req.query) = {}
                /\ PageOfM(last', 0, PageNo(last'.req.query), LimitNo(last'.req.query))
       /\ ~(Immediate("getMyBlogs") /\ GoodPaging(last'.req.query))]_vars

C13_Witness ==
    /\ last.op = "getPublishedBlogs"
    /\ last.status = 200
    /\ last.req.query = [page |-> Num(2), limit |-> Num(1)]
    /\ Len(last.blogs) = 1
    /\ last.totalPages = 2

\* The page of the query string q is absent, non-numeric, zero or negative.
NoPage(q) == Has(q, "page") => q.page.nan \/ q.page.n <= 0

\* C14: getPublishedBlogs and getMyBlogs treat an absent, non-numeric, zero
\* or negative page as page 1 (the first posts, currentPage 1) and an absent
\* limit as 20.
C14_PageDefaults ==
    [][/\ \A r \in Reqs :
             LET q == loc[r].req.query IN
             /\ (Answers(r, "published_count") /\ NoPage(q) /\ GoodLimit(q))
                   => PageOfM(last', Cardinality(publishedQuery(q)), 1, LimitNo(q))
             /\ (Answers(r, "my_count") /\ NoPage(q) /\ GoodLimit(q))
                   => PageOfM(last', Cardinality(myQuery(loc[r].req.caller, q)),
                              1, LimitNo(q))
       /\ (Immediate("getPublishedBlogs") /\ NoPage(last'.req.query))
             => last'.status = 200 /\ last'.currentPage = 1
       /\ ~(Immediate("getMyBlogs") /\ NoPage(last'.req.query))]_vars

SortFields == {"read_count", "reading_time", "createdAt"}

\* The value of the field f of a returned post; createdAt grows with _id.
FieldOf(post, f) ==
    CASE f = "createdAt" -> post._id
      [] f = "read_count" -> post.read_count
      [] f = "reading_time" -> post.reading_time

\* The list of posts is in the order of the field f, ascending or descending.
Ordered(posts, f, d) ==
    \A k \in 1..(Len(posts) - 1) :
        IF d = "asc" THEN FieldOf(posts[k], f) <= FieldOf(posts[k + 1], f)
        ELSE FieldOf(posts[k], f) >= FieldOf(posts[k + 1], f)

\* The _id values of a list of posts.
IdsOf(posts) == {posts[k]._id : k \in 1..Len(posts)}

\* C15: getPublishedBlogs with order_by = field:direction, the field one of
\* read_count, reading_time and createdAt, finds the matching published
\* posts in the order of that field and direction, and with no order_by in
\* the order of createdAt descending.
C15_OrderBy ==
    [][\A r \in Reqs :
          Proceeds(r, "published_count")
             => LET q == loc'[r].req.query
                    found == loc'[r].blogs IN
                /\ (~Has(q, "page") /\ ~Has(q, "limit"))
                      => IdsOf(found) = publishedQuery(q)
                /\ ~Has(q, "order_by") => Ordered(found, "createdAt", "desc")
                /\ (Has(q, "order_by") /\ q.order_by.field \in SortFields)
                      => Ordered(found, q.order_by.field, q.order_by.direction)]_vars

\* C16: getPublishedBlogs with an order_by whose field is none of
\* read_count, reading_time and createdAt finds the posts in the default
\* order, createdAt descending.
C16_UnknownOrderField ==
    [][\A r \in Reqs :
          (/\ Proceeds(r, "published_count")
           /\ Has(loc'[r].req.query, "order_by")
           /\ loc'[r].req.query.order_by.field \notin SortFields)
             => Ordered(loc'[r].blogs, "createdAt", "desc")]_vars

\* C17: getPublishedBlogs with tags = t1,...,tk, each entry trimmed, finds
\* exactly the published posts that carry at least one of the ti.
C17_TagsAnyOf ==
    [][\A r \in Reqs :
          (/\ Proceeds(r, "published_count")
           /\ DOMAIN loc'[r].req.query = {"tags"})
             => IdsOf(loc'[r].blogs)
                   = {i \in DOMAIN blogs :
                         /\ blogs[i].state = "published"
                         /\ \E k \in 1..Len(loc'[r].req.query.tags) :
                               loc'[r].req.query.tags[k].text \in TagsOf(blogs[i])}]_vars

C17_Witness ==
    /\ last.op = "getPublishedBlogs"
    /\ last.status = 200
    /\ DOMAIN last.req.query = {"tags"}
    /\ Len(last.req.query.tags) = 2
    /\ \E k \in 1..Len(last.blogs) : last.blogs[k].tags = <<"x">>
    /\ \E i \in DOMAIN blogs \ IdsOf(last.blogs) :
          blogs[i].state = "published" /\ blogs[i].tags = <<"w">>

\* No user has `author` in the first or the last name.
NoUserNamed(author) ==
    \A u \in Users : /\ ~regexI(author, UserDocs[u].first_name)
                     /\ ~regexI(author, UserDocs[u].last_name)

NoSuchAuthor(q) == Has(q, "author") /\ NoUserNamed(q.author)

StateFilter(q) == Has(q, "state") /\ q.state \in {"draft", "published"}

\* C19: getMyBlogs finds only posts of the caller: all of them with no
\* state filter or with a state that is neither draft nor published, which
\* is not an error, and those in the state asked for otherwise.
C19_OnlyMine ==
    [][/\ \A r \in Reqs :
             Proceeds(r, "my_count")
                => LET q == loc'[r].req.query
                       caller == loc'[r].req.caller
                       found == loc'[r].blogs IN
                   /\ \A k \in 1..Len(found) :
                         /\ found[k].author = caller
                         /\ StateFilter(q) => found[k].state = q.state
                   /\ (~Has(q, "page") /\ ~Has(q, "limit"))
                         => IdsOf(found)
                               = {i \in DOMAIN blogs :
                                     /\ blogs[i].author = caller
                                     /\ StateFilter(q) => blogs[i].state = q.state}
       /\ \A r \in Reqs : Answers(r, "my_count") => last'.status = 200
       /\ (Immediate("getMyBlogs") /\ Has(last'.req.query, "state"))
             => ~GoodPaging(last'.req.query)]_vars

C19_Witness ==
    /\ last.op = "getMyBlogs"
    /\ last.status = 200
    /\ last.req.query = [state |-> "archived"]
    /\ Len(last.blogs) = 1
    /\ \E i \in DOMAIN blogs : blogs[i].author # last.req.caller

\* The post i was stored and is no more.
Deleted(i) == i \in 1..nextId /\ i \notin DOMAIN blogs

OtherState(b) == Has(b, "state") /\ b.state \notin {"draft", "published"}

C22_AuthorFixed ==
    [][/\ \A i \in Kept : blogs'[i].author = blogs[i].author
       /\ \A r \in Reqs :
             (Answers(r, "create") /\ nextId' # nextId)
                => /\ DOMAIN blogs' = DOMAIN blogs \cup {nextId'}
                   /\ blogs'[nextId'].author = loc[r].req.caller
       /\ (Immediate("createBlog") /\ Has(last'.req.body, "author"))
             => last'.status = 400 /\ blogs' = blogs]_vars

\* An updateBlog whose body names another user as author has been saved.
C22_Witness ==
    /\ last.op = "updateBlog"
    /\ last.status = 200
    /\ Has(last.req.body, "author")
    /\ last.req.id \in DOMAIN blogs
    /\ last.req.body.author # blogs[last.req.id].author
    /\ last.req.caller = blogs[last.req.id].author

\* C23: the save of an updateBlog that gives a post a title other than the
\* one it read, when another post of the same author holds that title, is
\* answered 400 and writes nothing: every field of every post is as it was,
\* whatever else the request asked to change.
C23_RenameConflict ==
    [][\A r \in Reqs :
          (/\ Answers(r, "update_save")
           /\ "title" \in loc[r].mod
           /\ loc[r].req.id \in DOMAIN blogs
           /\ \E j \in DOMAIN blogs \ {loc[r].req.id} :
                 /\ blogs[j].title = loc[r].req.body.title
                 /\ blogs[j].author = loc[r].req.caller)
             => /\ last'.status = 400
                /\ ~Has(last', "blog")
                /\ blogs' = blogs]_vars

\* A rename to the title of the author's other post, in a request that also
\* asked for another state, description, tags and body, was refused.
C23_Witness ==
    /\ last.op = "updateBlog"
    /\ last.status = 400
    /\ last.req.id \in DOMAIN blogs
    /\ last.req.caller = blogs[last.req.id].author
    /\ blogSchema(last.req.body, TRUE) = NoError
    /\ Has(last.req.body, "state")
    /\ last.req.body.state # blogs[last.req.id].state
    /\ last.req.body.body # blogs[last.req.id].body
    /\ last.req.body.title # blogs[last.req.id].title
    /\ \E j \in DOMAIN blogs \ {last.req.id} :
          /\ blogs[j].title = last.req.body.title
          /\ blogs[j].author = last.req.caller

\* C24: every request is answered, and every answer to a failed store call,
\* the User.find of the author filter included, is 500 'Server error': no
\* handler is left without a response and no 500 carries another body.
C24_AlwaysAnswered ==
    /\ \A r \in Reqs : pc[r] # "unanswered"
    /\ last.status = 500 => last.message = "Server error"

\* C25: a registerUser whose email is that of a stored user is answered
\* 400, with the message 'User with that email already exists' when its body
\* is well formed, carries no token and leaves the User collection as it
\* was; and after any sequence of registrations no two users hold the same
\* email.
C25_OneUserPerEmail ==
    /\ [][(/\ Immediate("registerUser")
           /\ Has(last'.req.body, "email")
           /\ \E u \in DOMAIN users : users[u].email = last'.req.body.email)
             => /\ last'.status = 400
                /\ registerSchema(last'.req.body) = NoError
                      => last'.message = "User with that email already exists"
                /\ ~Has(last', "token")
                /\ users' = users]_vars
    /\ [](\A u, v \in DOMAIN users : users[u].email = users[v].email => u = v)

\* A second registration with the email of a stored user, and another
\* password, was refused while another user was registered as well.
C25_Witness ==
    /\ last.op = "registerUser"
    /\ last.status = 400
    /\ last.message = "User with that email already exists"
    /\ Cardinality(DOMAIN users) = 2
    /\ \E u \in DOMAIN users :
          /\ users[u].email = last.req.body.email
          /\ users[u].password # hash(last.req.body.password)

\* C26: a loginUser with an email and a password is answered 200 with a
\* token exactly when a stored user holds the email and the password matches
\* the one the user registered with; with an unknown email and with a wrong
\* password it is answered 401 'Invalid credentials' without a token, the
\* same response in both cases.
C26_LoginIffMatch ==
    [][(Immediate("loginUser") /\ loginSchema(last'.req.body) = NoError)
          => LET b == last'.req.body
                 ok == {u \in DOMAIN users :
                          /\ users[u].email = b.email
                          /\ users[u].password = hash(b.password)}
             IN IF ok # {}
                THEN /\ last'.status = 200
                     /\ Has(last', "token")
                     /\ last'.user._id \in ok
                     /\ last'.token = generateToken(last'.user._id)
                ELSE last' = Response("loginUser", last'.req, 401,
                                      "Invalid credentials")]_vars

\* A login with the email of a stored user and another password than the
\* user's was refused.
C26_Witness ==
    /\ last.op = "loginUser"
    /\ last.status = 401
    /\ \E u \in DOMAIN users : users[u].email = last.req.body.email
    /\ \E u \in DOMAIN users : users[u].email # last.req.body.email

\* C27: updateBlog and updateBlogState choose their error in the same
\* order: 404 when no post has the id, else 403 when the caller is not the
\* author of the post, and only then the 400 of an invalid body, so that a
\* request for an id no post has is answered 404 and a request of another
\* user than the author 403, whatever the body.
C27_SamePrecedence ==
    [][\A op \in {"updateBlog", "updateBlogState"} :
          Immediate(op)
             => /\ last'.req.id \notin DOMAIN blogs => last'.status = 404
                /\ ByOther => last'.status = 403]_vars

\* C28: read_count is never raised while the post is a draft: every step
\* that raises the stored read_count of a post finds its stored state
\* published, and a getPublishedBlogById whose save comes after the post was
\* withdrawn does not answer with the post.
C28_NoReadOfDraft ==
    [][/\ \A i \in Kept :
             blogs'[i].read_count > blogs[i].read_count
                => blogs[i].state = "published"
       /\ \A r \in Reqs :
             (/\ Answers(r, "get_save")
              /\ loc[r].req.id \in DOMAIN blogs
              /\ blogs[loc[r].req.id].state = "draft")
                => ~Has(last', "blog")]_vars

\* C29: a deleted post is not stored again: the save of a
\* getPublishedBlogById, updateBlog or updateBlogState that read the post
\* before a deleteBlog removed it writes nothing and does not answer with
\* the post, and once no request is in flight the post is still absent.
C29_NoResurrection ==
    /\ [][\A r \in Reqs :
             (/\ Answers(r, "get_save") \/ Answers(r, "update_save")
                 \/ Answers(r, "state_save")
              /\ Deleted(loc[r].req.id))
                => /\ blogs' = blogs
                   /\ last'.status # 200
                   /\ ~Has(last', "blog")]_vars
    /\ [][\A i \in Ids : Deleted(i) => Deleted(i)']_vars

\* The save of an updateBlog came after the delete of its post, and no
\* request is in flight.
C29_Witness ==
    /\ last.op = "updateBlog"
    /\ last.status = 500
    /\ Deleted(last.req.id)
    /\ \A r \in Reqs : pc[r] = "idle"

\* limit and skip as lines 57-59 and 149-151 compute them from the query
\* string q.
LimitOf(q) == parseIntOr(q, "limit", 20)

SkipOf(q) == (parseIntOr(q, "page", 1) - 1) * LimitOf(q)

\* C30: whatever page and limit are (absent, non-numeric, zero, negative or
\* positive), getPublishedBlogs and getMyBlogs compute skip >= 0 and
\* limit >= 1, and every listing answered 200 has totalPages >= 0 and
\* currentPage >= 1.
C30_PagingInRange ==
    /\ [][/\ \A op \in {"getPublishedBlogs", "getMyBlogs"} :
                Immediate(op) => SkipOf(last'.req.query) >= 0 /\ LimitOf(last'.req.query) >= 1
          /\ \A r \in Reqs :
                (Proceeds(r, "published_count") \/ Proceeds(r, "my_count"))
                   => /\ SkipOf(loc'[r].req.query) >= 0
                      /\ LimitOf(loc'[r].req.query) >= 1]_vars
    /\ []((last.op \in {"getPublishedBlogs", "getMyBlogs"} /\ last.status = 200)
             => last.totalPages >= 0 /\ last.currentPage >= 1)

====
